---------------------------- MODULE Spec2Model ----------------------------
(***************************************************************************)
(* Model of the Borland demangler's recursive-descent AST parser           *)
(* (src/demangler_llvm/borland_ast_parser.cpp).                            *)
(*                                                                         *)
(* The parser is a set of mutually recursive C++ methods.  The model keeps *)
(* the call stack explicitly: every method that calls a recursive rule is  *)
(* cut at its call sites into steps, one action per step.  Methods that    *)
(* call nothing recursive (parseNumber, parseQualifiers, parseCallConv,    *)
(* parseBuildInType, the name scanning loops) are operators.               *)
(*                                                                         *)
(* Characters are one-character strings, the mangled name a sequence of    *)
(* them.  Cursor positions are 0-based offsets into the mangled name; the  *)
(* cursor _mangled is the suffix starting at offset pos (its end never     *)
(* moves).  AST nodes live in a heap; a node handle is its heap index.     *)
(***************************************************************************)
EXTENDS Integers, Sequences, FiniteSets, TLC

VARIABLES
    mangled,    \* the mangled name given to the constructor
    pos,        \* _mangled.begin(), as an offset into mangled
    status,     \* _status
    ast,        \* _ast (a node handle, Null when nullptr)
    heap,       \* the nodes created so far; handle h is heap[h]
    stack,      \* the call stack of the rule methods, top last
    ret,        \* the value returned by the method that returned last
    aborted,    \* the process was stopped by StringView's assert(!empty())
    oobRead     \* some read was made at an offset >= mangled.length()

vars == <<mangled, pos, status, ast, heap, stack, ret, aborted, oobRead>>

-----------------------------------------------------------------------------
(* Bounds of the model *)

\* the number of tokens an input body is concatenated from
MaxPieces == 2

-----------------------------------------------------------------------------
(* Characters, numbers *)

Null == 0

\* the character stored behind the last character of a std::string
NUL == "NUL"

in_progress == "in_progress"
success == "success"
invalid_mangled_name == "invalid_mangled_name"

Digits == <<"0", "1", "2", "3", "4", "5", "6", "7", "8", "9">>

IsDigit(c) == \E i \in 1..10 : Digits[i] = c

DigitVal(c) == (CHOOSE i \in 1..10 : Digits[i] = c) - 1

RECURSIVE Dec(_)
Dec(n) == IF n < 10 THEN <<Digits[n + 1]>>
          ELSE Dec(n \div 10) \o <<Digits[(n % 10) + 1]>>

-----------------------------------------------------------------------------
(* The cursor: StringView _mangled = [pos, N) of mangled *)

N == Len(mangled)

empty(p) == p >= N

\* the character at offset i; offset N holds the terminator of the string
CharAt(i) == IF i < N THEN mangled[i + 1] ELSE NUL

\* StringView(first, last): the characters at offsets first .. last-1
View(first, last) == SubSeq(mangled, first + 1, last)

startsWith(p, s) == p + Len(s) <= N /\ View(p, p + Len(s)) = s

\* _mangled.consumeFront(c): the new begin
consumeFrontChar(p, c) == IF p < N /\ mangled[p + 1] = c THEN p + 1 ELSE p

\* _mangled.consumeFront(s): the new begin
consumeFrontView(p, s) == IF startsWith(p, s) THEN p + Len(s) ELSE p

\* the offset of the first c at or after p, N when there is none
RECURSIVE find(_, _)
find(p, c) == IF p >= N THEN N
              ELSE IF mangled[p + 1] = c THEN p ELSE find(p + 1, c)

\* _mangled.cutUntil(c): the prefix before the first c is cut off and
\* returned; without a c nothing is consumed and the result is empty
cutUntil(p, c) ==
    LET at == find(p, c)
    IN  IF at >= N THEN [pos |-> p, text |-> <<>>]
        ELSE [pos |-> at, text |-> View(p, at)]

peekChar(p, c) == p < N /\ mangled[p + 1] = c

statusOk(st) == st = in_progress

\* checkResult(node): the status it leaves
checkResult(node, st) ==
    IF node = Null \/ st = invalid_mangled_name THEN invalid_mangled_name ELSE st

\* consume(c): the new begin and the status
consume(p, st, c) ==
    IF peekChar(p, c) THEN [pos |-> p + 1, status |-> st, ok |-> TRUE]
    ELSE [pos |-> p, status |-> invalid_mangled_name, ok |-> FALSE]

\* the digit loop of parseNumber and peekNumber.  acc is an unsigned; the
\* digit runs of the inputs below have at most three digits, far from where
\* it would wrap
RECURSIVE digitRun(_, _)
digitRun(p, acc) ==
    IF p < N /\ IsDigit(mangled[p + 1])
    THEN digitRun(p + 1, 10 * acc + DigitVal(mangled[p + 1]))
    ELSE [pos |-> p, val |-> acc]

peekNumber(p) ==
    IF p >= N THEN 0
    ELSE IF mangled[p + 1] = "0" THEN 0
    ELSE digitRun(p, 0).val

parseNumber(p, st) ==
    IF p >= N THEN [pos |-> p, status |-> st, val |-> 0]
    ELSE IF mangled[p + 1] = "0"
         THEN [pos |-> p, status |-> invalid_mangled_name, val |-> 0]
         ELSE LET r == digitRun(p, 0)
              IN  [pos |-> r.pos, status |-> st, val |-> r.val]

parseQualifiers(p) ==
    LET p1 == consumeFrontChar(p, "w")
        p2 == consumeFrontChar(p1, "x")
    IN  [pos |-> p2, quals |-> [isVolatile |-> p1 # p, isConst |-> p2 # p1]]

NoQuals == [isVolatile |-> FALSE, isConst |-> FALSE]

parseCallConv(p, st) ==
    IF startsWith(p, <<"q", "q", "r">>)
    THEN [pos |-> p + 3, status |-> st, cc |-> "fastcall"]
    ELSE IF startsWith(p, <<"q", "q", "s">>)
    THEN [pos |-> p + 3, status |-> st, cc |-> "stdcall"]
    ELSE IF startsWith(p, <<"q">>)
    THEN [pos |-> p + 1, status |-> st, cc |-> "unknown"]
    ELSE [pos |-> p, status |-> invalid_mangled_name, cc |-> "unknown"]

-----------------------------------------------------------------------------
(* AST nodes.  Every create() call allocates a new heap entry. *)

NameNode(text) == [kind |-> "KName", name |-> text]
NestedNameNode(super, name) == [kind |-> "KNestedName", super |-> super, name |-> name]
TemplateNode(name, params) == [kind |-> "KTemplateNode", name |-> name, params |-> params]
FunctionNode(name, funcType) == [kind |-> "KFunction", name |-> name, funcType |-> funcType]
FunctionTypeNode(callConv, params, retType, quals) ==
    [kind |-> "KFunctionType", callConv |-> callConv, params |-> params,
     retType |-> retType, quals |-> quals]
PointerTypeNode(pointee, quals) == [kind |-> "KPointerType", pointee |-> pointee, quals |-> quals]
ReferenceTypeNode(pointee) == [kind |-> "KReferenceType", pointee |-> pointee]
RReferenceTypeNode(pointee) == [kind |-> "KRReferenceType", pointee |-> pointee]
ArrayNode(type, size, quals) == [kind |-> "KArrayNode", pointee |-> type, size |-> size, quals |-> quals]
NamedTypeNode(name, quals) == [kind |-> "KNamedType", name |-> name, quals |-> quals]
BuiltInTypeNode(typeName, quals) == [kind |-> "KBuiltInType", typeName |-> typeName, quals |-> quals]
CharTypeNode(signness, quals) == [kind |-> "KCharType", signness |-> signness, quals |-> quals]
IntegralTypeNode(typeName, isUnsigned, quals) ==
    [kind |-> "KIntegralType", typeName |-> typeName, isUnsigned |-> isUnsigned, quals |-> quals]
FloatTypeNode(typeName, quals) == [kind |-> "KFloatType", typeName |-> typeName, quals |-> quals]
NodeArray == [kind |-> "KNodeArray", nodes |-> <<>>]

\* the result of a rule that made no node
NoNode == [kind |-> "none"]

\* the handle a create() on heap h returns
NewHandle(h) == Len(h) + 1

\* params->addNode(node)
addNode(h, params, node) ==
    [h EXCEPT ![params] = [@ EXCEPT !.nodes = Append(@, node)]]

\* params->get(i), i counted from 0
get(h, params, i) == h[params].nodes[i + 1]

size(h, params) == Len(h[params].nodes)

\* a backreference resolved by a copy of the node, not by its handle
addBackref_Copy(h, params, backref) ==
    LET copy == Append(h, h[get(h, params, backref - 1)])
    IN  addNode(copy, params, Len(copy))

\* params->addNode(params->get(backref - 1)): the heap it leaves
addBackref(h, params, backref) == addNode(h, params, get(h, params, backref - 1))

\* a NameNode for view is created and, when there is a name already, nested
\* into it
addName(h, name, view) ==
    LET h1 == Append(h, NameNode(view))
    IN  IF name = Null THEN [heap |-> h1, name |-> Len(h1)]
        ELSE [heap |-> Append(h1, NestedNameNode(name, Len(h1))), name |-> Len(h1) + 1]

parseBuildInType(p, st, quals) ==
    LET R(n, node) == [pos |-> p + n, status |-> st, node |-> node]
        u == IF peekChar(p, "u") THEN 1 ELSE 0
    IN  IF peekChar(p, "o") THEN R(1, BuiltInTypeNode("bool", quals))
        ELSE IF peekChar(p, "b") THEN R(1, BuiltInTypeNode("wchar_t", quals))
        ELSE IF peekChar(p, "v") THEN R(1, BuiltInTypeNode("void", quals))
        ELSE IF startsWith(p, <<"z", "c">>) THEN R(2, CharTypeNode("signed_char", quals))
        ELSE IF startsWith(p, <<"u", "c">>) THEN R(2, CharTypeNode("unsigned_char", quals))
        ELSE IF peekChar(p, "c") THEN R(1, CharTypeNode("no_prefix", quals))
        ELSE IF peekChar(p + u, "s") THEN R(u + 1, IntegralTypeNode("short", u = 1, quals))
        ELSE IF peekChar(p + u, "i") THEN R(u + 1, IntegralTypeNode("int", u = 1, quals))
        ELSE IF peekChar(p + u, "l") THEN R(u + 1, IntegralTypeNode("long", u = 1, quals))
        ELSE IF peekChar(p + u, "j") THEN R(u + 1, IntegralTypeNode("long long", u = 1, quals))
        ELSE IF u = 1 THEN [pos |-> p + 1, status |-> invalid_mangled_name, node |-> NoNode]
        ELSE IF peekChar(p, "f") THEN R(1, FloatTypeNode("float", quals))
        ELSE IF peekChar(p, "d") THEN R(1, FloatTypeNode("double", quals))
        ELSE IF peekChar(p, "g") THEN R(1, FloatTypeNode("long double", quals))
        ELSE R(0, NoNode)

-----------------------------------------------------------------------------
(* The name scanning loops *)

\* the loop of parseFuncName, from scan position c on: start is the first
\* offset of the segment being scanned, p the cursor, name the name built,
\* ef whether front() was called on an empty cursor
RECURSIVE funcNameLoop(_, _, _, _, _, _)
funcNameLoop(c, start, p, name, h, ef) ==
    IF c > N
    THEN [pos |-> p, name |-> name, heap |-> h, emptyFront |-> ef, endRead |-> TRUE]
    ELSE IF CharAt(c) \in {"$", "%", "@"}
    THEN LET nonEmpty == start < c
             nm == IF nonEmpty THEN addName(h, name, View(start, c))
                   ELSE [heap |-> h, name |-> name]
             p1 == IF nonEmpty THEN consumeFrontView(p, View(start, c)) ELSE p
             start1 == IF nonEmpty THEN c + 1 ELSE start
             ef1 == ef \/ empty(p1)
         IN  IF CharAt(p1) = "@"
             THEN funcNameLoop(c + 1, start1, p1 + 1, nm.name, nm.heap, ef1)
             ELSE [pos |-> p1, name |-> nm.name, heap |-> nm.heap,
                   emptyFront |-> ef1, endRead |-> FALSE]
    ELSE funcNameLoop(c + 1, start, p, name, h, ef)

\* the loop of parseName, bounded by end
RECURSIVE nameLoop(_, _, _, _, _, _, _)
nameLoop(c, start, p, name, h, ef, end) ==
    IF c >= end
    THEN [c |-> c, start |-> start, pos |-> p, name |-> name, heap |-> h, emptyFront |-> ef]
    ELSE IF CharAt(c) \in {"%", "@"}
    THEN LET nonEmpty == start < c
             nm == IF nonEmpty THEN addName(h, name, View(start, c))
                   ELSE [heap |-> h, name |-> name]
             p1 == IF nonEmpty THEN consumeFrontView(p, View(start, c)) ELSE p
             start1 == IF nonEmpty THEN c + 1 ELSE start
             ef1 == ef \/ empty(p1)
         IN  IF CharAt(p1) = "@"
             THEN nameLoop(c + 1, start1, p1 + 1, nm.name, nm.heap, ef1, end)
             ELSE [c |-> c, start |-> start1, pos |-> p1, name |-> nm.name,
                   heap |-> nm.heap, emptyFront |-> ef1]
    ELSE nameLoop(c + 1, start, p, name, h, ef, end)

\* parseName up to its call of the bounded parseTemplate: the loop and the
\* remainder taken as a name when the loop ran to end
nameScan(p, h, end) ==
    LET l == nameLoop(p, p, p, Null, h, FALSE, end)
    IN  IF l.c = end
        THEN LET nm == addName(l.heap, l.name, View(l.start, l.c))
             IN  [c |-> l.c, pos |-> consumeFrontView(l.pos, View(l.start, l.c)),
                  name |-> nm.name, heap |-> nm.heap, emptyFront |-> l.emptyFront]
        ELSE [c |-> l.c, pos |-> l.pos, name |-> l.name, heap |-> l.heap,
              emptyFront |-> l.emptyFront]

-----------------------------------------------------------------------------
(* The inputs *)

\* the tokens an input body is made of
Tokens ==
    { <<"i">>, <<"k">>, <<"$">>, <<"%">>, <<"@">>, <<"n">>,
      <<"t">>, <<"t", "1">>, <<"t", "2">>,
      <<"r">>, <<"h">>, <<"r", "i">>, <<"p">>, <<"x">>,
      <<"$", "q">>, <<"a", "1", "$">>, <<"0">>, <<"%", "n", "$">> }

RECURSIVE Bodies(_)
Bodies(k) ==
    IF k = 0 THEN { <<>> }
    ELSE LET shorter == Bodies(k - 1)
         IN  shorter \cup { b \o t : b \in shorter, t \in Tokens }

FuncHead == <<"@", "n", "$", "q">>

\* the contexts a body is put into: alone, as the parameters of a function
\* (the first ones, or behind a pointer parameter), as its return type,
\* as the arguments of the template of a function name (closed or not), as
\* the name of a length-prefixed named type, and as the arguments of the
\* template of a named type whose declared length is right, one too small or
\* one too large
Wrap(b) ==
    { b,
      FuncHead \o b,
      FuncHead \o <<"p", "i">> \o b,
      FuncHead \o <<"$">> \o b,
      <<"@", "n", "%", "n", "$">> \o b,
      <<"@", "n", "%", "n", "$">> \o b \o <<"%", "$", "q">>,
      FuncHead \o Dec(Len(b)) \o b,
      FuncHead \o Dec(Len(b) + 4) \o <<"%", "n", "$">> \o b \o <<"%">>,
      FuncHead \o Dec(Len(b) + 3) \o <<"%", "n", "$">> \o b \o <<"%">>,
      FuncHead \o Dec(Len(b) + 5) \o <<"%", "n", "$">> \o b \o <<"%">> }

Inputs == UNION { Wrap(b) : b \in Bodies(MaxPieces) }

-----------------------------------------------------------------------------
(* The call stack *)

Top == stack[Len(stack)]

Running == ~aborted /\ stack # <<>>

At(label) == Running /\ Top.pc = label

\* the constructor has returned
Constructed == ~aborted /\ stack = <<>>

Pop == SubSeq(stack, 1, Len(stack) - 1)

\* the running method returns v
Return(v) == stack' = Pop /\ ret' = v

\* the running method goes on at frame f
Goto(f) == stack' = [stack EXCEPT ![Len(stack)] = f] /\ ret' = ret

\* the running method calls the method of frame g and goes on at frame f
Call(f, g) == stack' = Append([stack EXCEPT ![Len(stack)] = f], g) /\ ret' = ret

\* what front() does: on an empty cursor either its assertion stops the
\* process, or (assertions compiled out) it reads the terminator
FrontOutcomes(onEmpty) == IF onEmpty THEN {"abort", "nul"} ELSE {"ok"}

Abort ==
    /\ aborted' = TRUE
    /\ UNCHANGED <<mangled, pos, status, ast, heap, stack, ret, oobRead>>

-----------------------------------------------------------------------------
(* BorlandASTParser::BorlandASTParser, parse, parseFunction *)

Init ==
    /\ mangled \in Inputs
    /\ pos = 0
    /\ status = in_progress
    /\ ast = Null
    /\ heap = <<>>
    /\ stack = << [pc |-> "parse"] >>
    /\ ret = Null
    /\ aborted = FALSE
    /\ oobRead = FALSE

Parse ==
    /\ At("parse")
    /\ IF peekChar(pos, "@")
       THEN Call([pc |-> "parse_end"], [pc |-> "parseFunction"])
       ELSE Goto([pc |-> "parse_end"])
    /\ UNCHANGED <<mangled, pos, status, ast, heap, aborted, oobRead>>

ParseEnd ==
    /\ At("parse_end")
    /\ status' = IF ~empty(pos) THEN invalid_mangled_name ELSE status
    /\ Return(Null)
    /\ UNCHANGED <<mangled, pos, ast, heap, aborted, oobRead>>

ParseFunction ==
    /\ At("parseFunction")
    /\ LET c == consume(pos, status, "@")
       IN  pos' = c.pos /\ status' = c.status
    /\ Call([pc |-> "parseFunction_name"], [pc |-> "parseFuncName"])
    /\ UNCHANGED <<mangled, ast, heap, aborted, oobRead>>

\* parseFunction after parseFuncName returned
ParseFunction_name ==
    /\ At("parseFunction_name")
    /\ LET st1 == checkResult(ret, status)
           c == consume(pos, st1, "$")
           q == parseQualifiers(c.pos)
       IN  IF st1 = invalid_mangled_name
           THEN status' = st1 /\ pos' = pos /\ Return(Null)
           ELSE IF ~c.ok
           THEN status' = c.status /\ pos' = pos /\ Return(Null)
           ELSE /\ status' = st1
                /\ pos' = q.pos
                /\ Call([pc |-> "parseFunction_type", absNameNode |-> ret],
                        [pc |-> "parseFuncType", quals |-> q.quals])
    /\ UNCHANGED <<mangled, ast, heap, aborted, oobRead>>

\* parseFunction after parseFuncType returned, were checkResult(funcType)
\* left out
ParseFunction_type_NoCheck ==
    /\ At("parseFunction_type")
    /\ IF ~empty(pos)
       THEN status' = invalid_mangled_name /\ UNCHANGED <<ast, heap>>
       ELSE /\ status' = success
            /\ heap' = Append(heap, FunctionNode(Top.absNameNode, ret))
            /\ ast' = NewHandle(heap)
    /\ Return(Null)
    /\ UNCHANGED <<mangled, pos, aborted, oobRead>>

\* parseFunction after parseFuncType returned, were the test of
\* _mangled.empty() left out
ParseFunction_type_NoEmptyCheck ==
    /\ At("parseFunction_type")
    /\ IF checkResult(ret, status) = invalid_mangled_name
       THEN status' = invalid_mangled_name /\ UNCHANGED <<ast, heap>>
       ELSE /\ status' = success
            /\ heap' = Append(heap, FunctionNode(Top.absNameNode, ret))
            /\ ast' = NewHandle(heap)
    /\ Return(Null)
    /\ UNCHANGED <<mangled, pos, aborted, oobRead>>

\* parseFunction after parseFuncType returned
ParseFunction_type ==
    /\ At("parseFunction_type")
    /\ IF checkResult(ret, status) = invalid_mangled_name \/ ~empty(pos)
       THEN status' = invalid_mangled_name /\ UNCHANGED <<ast, heap>>
       ELSE /\ status' = success
            /\ heap' = Append(heap, FunctionNode(Top.absNameNode, ret))
            /\ ast' = NewHandle(heap)
    /\ Return(Null)
    /\ UNCHANGED <<mangled, pos, aborted, oobRead>>

-----------------------------------------------------------------------------
(* parseFuncName *)

ParseFuncName ==
    /\ At("parseFuncName")
    /\ LET s == funcNameLoop(pos, pos, pos, Null, heap, FALSE)
           onEmpty == s.emptyFront \/ empty(s.pos)
       IN  \E o \in FrontOutcomes(onEmpty) :
             IF o = "abort" THEN Abort
             ELSE /\ pos' = s.pos
                  /\ heap' = s.heap
                  /\ oobRead' = (oobRead \/ onEmpty \/ s.endRead)
                  /\ IF CharAt(s.pos) = "%"
                     THEN /\ Call([pc |-> "parseFuncName_template"],
                                  [pc |-> "parseTemplate", templateNamespace |-> s.name])
                          /\ status' = status
                     ELSE /\ status' = checkResult(s.name, status)
                          /\ Return(s.name)
                  /\ UNCHANGED <<mangled, ast, aborted>>

\* parseFuncName after parseTemplate returned
ParseFuncName_template ==
    /\ At("parseFuncName_template")
    /\ status' = checkResult(ret, status)
    /\ Return(ret)
    /\ UNCHANGED <<mangled, pos, ast, heap, aborted, oobRead>>

-----------------------------------------------------------------------------
(* parseTemplate(templateNamespace), parseTemplateName, parseTemplateParams *)

\* the method creates node and returns it
ReturnNew(node) == heap' = Append(heap, node) /\ Return(NewHandle(heap))

ParseTemplate ==
    /\ At("parseTemplate")
    /\ LET c1 == consume(pos, status, "%")
           cut == cutUntil(c1.pos, "$")
           nm == addName(heap, Top.templateNamespace, cut.text)
           c2 == consume(cut.pos, checkResult(nm.name, c1.status), "$")
       IN  IF ~c1.ok
           THEN pos' = pos /\ status' = c1.status /\ heap' = heap /\ Return(Null)
           ELSE IF cut.text = <<>>
           THEN pos' = c1.pos /\ status' = invalid_mangled_name /\ heap' = heap /\ Return(Null)
           ELSE IF c1.status = invalid_mangled_name
           THEN pos' = cut.pos /\ status' = c1.status /\ heap' = nm.heap /\ Return(Null)
           ELSE IF ~c2.ok
           THEN pos' = cut.pos /\ status' = c2.status /\ heap' = nm.heap /\ Return(Null)
           ELSE /\ pos' = c2.pos
                /\ status' = c2.status
                /\ heap' = Append(nm.heap, NodeArray)
                /\ Call([pc |-> "parseTemplate_params", templateNameNode |-> nm.name],
                        [pc |-> "parseTemplateParams", params |-> NewHandle(nm.heap)])
    /\ UNCHANGED <<mangled, ast, aborted, oobRead>>

\* the loop of parseTemplateParams, at its condition
ParseTemplateParams ==
    /\ At("parseTemplateParams")
    /\ \E o \in FrontOutcomes(empty(pos)) :
         IF o = "abort" THEN Abort
         ELSE LET params == Top.params
                  t == consumeFrontChar(pos, "t")
                  backref == peekNumber(t)
                  num == parseNumber(t, status)
              IN  /\ oobRead' = (oobRead \/ empty(pos))
                  /\ IF CharAt(pos) = "%"
                     THEN /\ Return(IF size(heap, params) = 0 THEN Null ELSE params)
                          /\ UNCHANGED <<pos, status, heap>>
                     ELSE IF t # pos /\ backref > 0 /\ backref <= size(heap, params)
                     THEN /\ pos' = num.pos
                          /\ status' = num.status
                          /\ heap' = addBackref(heap, params, backref)
                          /\ Goto(Top)
                     ELSE /\ pos' = t
                          /\ Call([pc |-> "parseTemplateParams_type", params |-> params],
                                  [pc |-> "parseType"])
                          /\ UNCHANGED <<status, heap>>
                  /\ UNCHANGED <<mangled, ast, aborted>>

\* parseTemplateParams after parseType returned
ParseTemplateParams_type ==
    /\ At("parseTemplateParams_type")
    /\ IF ~statusOk(status)
       THEN Return(Null) /\ heap' = heap
       ELSE /\ heap' = IF ret # Null THEN addNode(heap, Top.params, ret) ELSE heap
            /\ Goto([pc |-> "parseTemplateParams", params |-> Top.params])
    /\ UNCHANGED <<mangled, pos, status, ast, aborted, oobRead>>

\* parseTemplate after parseTemplateParams returned
ParseTemplate_params ==
    /\ At("parseTemplate_params")
    /\ LET st1 == checkResult(ret, status)
           c == consume(pos, st1, "%")
       IN  IF st1 = invalid_mangled_name \/ ~c.ok
           THEN pos' = pos /\ status' = c.status /\ heap' = heap /\ Return(Null)
           ELSE /\ pos' = c.pos
                /\ status' = c.status
                /\ ReturnNew(TemplateNode(Top.templateNameNode, ret))
    /\ UNCHANGED <<mangled, ast, aborted, oobRead>>

-----------------------------------------------------------------------------
(* parseFuncType, parseFuncParams *)

ParseFuncType ==
    /\ At("parseFuncType")
    /\ LET cc == parseCallConv(pos, status)
       IN  /\ pos' = cc.pos
           /\ status' = cc.status
           /\ IF ~statusOk(cc.status)
              THEN Return(Null) /\ heap' = heap
              ELSE /\ heap' = Append(heap, NodeArray)
                   /\ Call([pc |-> "parseFuncType_params", callConv |-> cc.cc,
                            quals |-> Top.quals],
                           [pc |-> "parseFuncParams", params |-> NewHandle(heap)])
    /\ UNCHANGED <<mangled, ast, aborted, oobRead>>

\* the loop of parseFuncParams, at its condition
ParseFuncParams ==
    /\ At("parseFuncParams")
    /\ LET params == Top.params
           num == parseNumber(pos + 1, status)
       IN  IF empty(pos) \/ ~statusOk(status) \/ peekChar(pos, "$")
           THEN /\ Return(IF size(heap, params) = 0 THEN Null ELSE params)
                /\ UNCHANGED <<pos, status, heap>>
           ELSE IF peekChar(pos, "t")
           THEN /\ pos' = num.pos
                /\ IF num.val = 0 \/ num.val > size(heap, params) \/ ~statusOk(num.status)
                   THEN status' = invalid_mangled_name /\ heap' = heap /\ Return(Null)
                   ELSE /\ status' = num.status
                        /\ heap' = addBackref(heap, params, num.val)
                        /\ Goto(Top)
           ELSE /\ Call([pc |-> "parseFuncParams_type", params |-> params],
                        [pc |-> "parseType"])
                /\ UNCHANGED <<pos, status, heap>>
    /\ UNCHANGED <<mangled, ast, aborted, oobRead>>

\* parseFuncParams after parseType returned
ParseFuncParams_type ==
    /\ At("parseFuncParams_type")
    /\ heap' = IF ret # Null /\ statusOk(status)
               THEN addNode(heap, Top.params, ret) ELSE heap
    /\ IF ~statusOk(status)
       THEN Return(Null)
       ELSE Goto([pc |-> "parseFuncParams", params |-> Top.params])
    /\ UNCHANGED <<mangled, pos, status, ast, aborted, oobRead>>

\* parseFuncType after parseFuncParams returned
ParseFuncType_params ==
    /\ At("parseFuncType_params")
    /\ IF ~statusOk(status)
       THEN Return(Null) /\ UNCHANGED <<pos, heap>>
       ELSE IF peekChar(pos, "$")
       THEN /\ pos' = pos + 1
            /\ heap' = heap
            /\ Call([pc |-> "parseFuncType_ret", callConv |-> Top.callConv,
                     paramsNode |-> ret, quals |-> Top.quals],
                    [pc |-> "parseType"])
       ELSE /\ pos' = pos
            /\ ReturnNew(FunctionTypeNode(Top.callConv, ret, Null, Top.quals))
    /\ UNCHANGED <<mangled, status, ast, aborted, oobRead>>

\* parseFuncType after the parseType of the return type returned
ParseFuncType_ret ==
    /\ At("parseFuncType_ret")
    /\ status' = checkResult(ret, status)
    /\ IF checkResult(ret, status) = invalid_mangled_name
       THEN Return(Null) /\ heap' = heap
       ELSE ReturnNew(FunctionTypeNode(Top.callConv, Top.paramsNode, ret, Top.quals))
    /\ UNCHANGED <<mangled, pos, ast, aborted, oobRead>>

-----------------------------------------------------------------------------
(* parseType and the rules it dispatches to *)

\* the cursor and the qualifiers after parseType's parseQualifiers
Quals == parseQualifiers(pos)

Qualified == Quals.quals.isConst \/ Quals.quals.isVolatile

\* parseType on 'p', and parsePointer up to its call of parseType
ParseType_pointer ==
    /\ At("parseType")
    /\ peekChar(Quals.pos, "p")
    /\ pos' = Quals.pos + 1
    /\ Call([pc |-> "parsePointer_type", quals |-> Quals.quals], [pc |-> "parseType"])
    /\ UNCHANGED <<mangled, status, ast, heap, aborted, oobRead>>

\* parseType on 'r', and parseReference up to its call
ParseType_reference ==
    /\ At("parseType")
    /\ peekChar(Quals.pos, "r")
    /\ IF Qualified
       THEN pos' = Quals.pos + 1 /\ status' = invalid_mangled_name /\ Return(Null)
       ELSE IF peekChar(Quals.pos + 1, "$")
       THEN /\ pos' = Quals.pos + 2
            /\ status' = status
            /\ Call([pc |-> "parseReference_func"],
                    [pc |-> "parseFuncType", quals |-> NoQuals])
       ELSE /\ pos' = Quals.pos + 1
            /\ status' = status
            /\ Call([pc |-> "parseReference_type"], [pc |-> "parseType"])
    /\ UNCHANGED <<mangled, ast, heap, aborted, oobRead>>

\* parseType on 'h', and parseRReference up to its call
ParseType_rreference ==
    /\ At("parseType")
    /\ peekChar(Quals.pos, "h")
    /\ IF Qualified
       THEN pos' = Quals.pos + 1 /\ status' = invalid_mangled_name /\ Return(Null)
       ELSE IF peekChar(Quals.pos + 1, "$")
       THEN /\ pos' = Quals.pos + 2
            /\ status' = status
            /\ Call([pc |-> "parseRReference_func"],
                    [pc |-> "parseFuncType", quals |-> NoQuals])
       ELSE /\ pos' = Quals.pos + 1
            /\ status' = status
            /\ Call([pc |-> "parseRReference_type"], [pc |-> "parseType"])
    /\ UNCHANGED <<mangled, ast, heap, aborted, oobRead>>

\* parseType on 'a', and parseArray up to its call of parseType
ParseType_array ==
    /\ At("parseType")
    /\ peekChar(Quals.pos, "a")
    /\ LET num == parseNumber(Quals.pos + 1, status)
           c == consume(num.pos, num.status, "$")
       IN  IF num.val = 0
           THEN pos' = num.pos /\ status' = invalid_mangled_name /\ Return(Null)
           ELSE IF ~c.ok
           THEN pos' = num.pos /\ status' = c.status /\ Return(Null)
           ELSE /\ pos' = c.pos
                /\ status' = c.status
                /\ Call([pc |-> "parseArray_type", len |-> num.val, quals |-> Quals.quals],
                        [pc |-> "parseType"])
    /\ UNCHANGED <<mangled, ast, heap, aborted, oobRead>>

\* parseType on 'q': parseFuncType's result is parseType's
ParseType_function ==
    /\ At("parseType")
    /\ peekChar(Quals.pos, "q")
    /\ pos' = Quals.pos
    /\ Goto([pc |-> "parseFuncType", quals |-> Quals.quals])
    /\ UNCHANGED <<mangled, status, ast, heap, aborted, oobRead>>

\* none of 'p', 'r', 'h', 'a', 'q' follows the qualifiers
OtherType == \A c \in {"p", "r", "h", "a", "q"} : ~peekChar(Quals.pos, c)

\* the number parseType reads before a named type
Number == parseNumber(Quals.pos, status)

\* parseType on a number: parseNamedType's result is parseType's
ParseType_named ==
    /\ At("parseType")
    /\ OtherType
    /\ Number.status # invalid_mangled_name
    /\ Number.val > 0
    /\ pos' = Number.pos
    /\ Goto([pc |-> "parseNamedType", nameLen |-> Number.val, quals |-> Quals.quals])
    /\ UNCHANGED <<mangled, status, ast, heap, aborted, oobRead>>

\* parseType on anything else: a number starting with 0, or parseBuildInType
ParseType_builtin ==
    /\ At("parseType")
    /\ OtherType
    /\ ~(Number.status # invalid_mangled_name /\ Number.val > 0)
    /\ LET b == parseBuildInType(Number.pos, Number.status, Quals.quals)
       IN  IF Number.status = invalid_mangled_name
           THEN pos' = Number.pos /\ status' = Number.status /\ heap' = heap /\ Return(Null)
           ELSE /\ pos' = b.pos
                /\ status' = b.status
                /\ IF b.node = NoNode THEN heap' = heap /\ Return(Null)
                   ELSE ReturnNew(b.node)
    /\ UNCHANGED <<mangled, ast, aborted, oobRead>>

\* parsePointer after parseType returned
ParsePointer_type ==
    /\ At("parsePointer_type")
    /\ status' = checkResult(ret, status)
    /\ IF checkResult(ret, status) = invalid_mangled_name
       THEN Return(Null) /\ heap' = heap
       ELSE ReturnNew(PointerTypeNode(ret, Top.quals))
    /\ UNCHANGED <<mangled, pos, ast, aborted, oobRead>>

\* parseReference after parseFuncType returned
ParseReference_func ==
    /\ At("parseReference_func")
    /\ status' = checkResult(ret, status)
    /\ IF checkResult(ret, status) = invalid_mangled_name
       THEN Return(Null) /\ heap' = heap
       ELSE ReturnNew(ReferenceTypeNode(ret))
    /\ UNCHANGED <<mangled, pos, ast, aborted, oobRead>>

\* parseReference after parseType returned
ParseReference_type ==
    /\ At("parseReference_type")
    /\ status' = checkResult(ret, status)
    /\ IF checkResult(ret, status) = invalid_mangled_name
       THEN Return(Null) /\ heap' = heap
       ELSE IF heap[ret].kind \in {"KReferenceType", "KRReferenceType"}
       THEN Return(Null) /\ heap' = heap
       ELSE ReturnNew(ReferenceTypeNode(ret))
    /\ UNCHANGED <<mangled, pos, ast, aborted, oobRead>>

\* parseRReference after parseFuncType returned
ParseRReference_func ==
    /\ At("parseRReference_func")
    /\ status' = checkResult(ret, status)
    /\ IF checkResult(ret, status) = invalid_mangled_name
       THEN Return(Null) /\ heap' = heap
       ELSE ReturnNew(RReferenceTypeNode(ret))
    /\ UNCHANGED <<mangled, pos, ast, aborted, oobRead>>

\* parseRReference after parseType returned
ParseRReference_type ==
    /\ At("parseRReference_type")
    /\ IF ret = Null \/ heap[ret].kind = "KReferenceType"
       THEN status' = invalid_mangled_name /\ Return(Null) /\ heap' = heap
       ELSE status' = status /\ ReturnNew(RReferenceTypeNode(ret))
    /\ UNCHANGED <<mangled, pos, ast, aborted, oobRead>>

\* parseArray after parseType returned
ParseArray_type ==
    /\ At("parseArray_type")
    /\ status' = checkResult(ret, status)
    /\ IF checkResult(ret, status) = invalid_mangled_name
       THEN Return(Null) /\ heap' = heap
       ELSE ReturnNew(ArrayNode(ret, Top.len, Top.quals))
    /\ UNCHANGED <<mangled, pos, ast, aborted, oobRead>>

-----------------------------------------------------------------------------
(* parseNamedType, parseName, parseTemplate(templateNamespace, end) *)

ParseNamedType ==
    /\ At("parseNamedType")
    /\ LET end_named == pos + Top.nameLen
       IN  IF N < end_named
           THEN status' = invalid_mangled_name /\ Return(Null)
           ELSE /\ status' = status
                /\ Call([pc |-> "parseNamedType_name", quals |-> Top.quals, end |-> end_named],
                        [pc |-> "parseName", end |-> end_named])
    /\ UNCHANGED <<mangled, pos, ast, heap, aborted, oobRead>>

ParseName ==
    /\ At("parseName")
    /\ LET s == nameScan(pos, heap, Top.end)
       IN  \E o \in FrontOutcomes(s.emptyFront) :
             IF o = "abort" THEN Abort
             ELSE /\ pos' = s.pos
                  /\ heap' = s.heap
                  /\ oobRead' = (oobRead \/ s.emptyFront)
                  /\ IF peekChar(s.pos, "%") /\ s.c # Top.end
                     THEN Goto([pc |-> "parseTemplateB", templateNamespace |-> s.name,
                                end |-> Top.end])
                     ELSE Return(s.name)
                  /\ UNCHANGED <<mangled, status, ast, aborted>>

\* parseNamedType after parseName returned
ParseNamedType_name ==
    /\ At("parseNamedType_name")
    /\ IF ret = Null
       THEN status' = invalid_mangled_name /\ Return(Null) /\ heap' = heap
       ELSE status' = status /\ ReturnNew(NamedTypeNode(ret, Top.quals))
    /\ UNCHANGED <<mangled, pos, ast, aborted, oobRead>>

\* the bounded parseTemplate up to its loop
ParseTemplateB ==
    /\ At("parseTemplateB")
    /\ LET c1 == consume(pos, status, "%")
           cut == cutUntil(c1.pos, "$")
           nm == addName(heap, Top.templateNamespace, cut.text)
           c2 == consume(cut.pos, c1.status, "$")
       IN  IF ~c1.ok
           THEN pos' = pos /\ status' = c1.status /\ heap' = heap /\ Return(Null)
           ELSE IF cut.text = <<>>
           THEN pos' = c1.pos /\ status' = invalid_mangled_name /\ heap' = heap /\ Return(Null)
           ELSE IF ~c2.ok
           THEN pos' = cut.pos /\ status' = c2.status /\ heap' = nm.heap /\ Return(Null)
           ELSE /\ pos' = c2.pos
                /\ status' = c2.status
                /\ heap' = Append(nm.heap, NodeArray)
                /\ Goto([pc |-> "parseTemplateB_loop", templateNameNode |-> nm.name,
                         params |-> NewHandle(nm.heap), end |-> Top.end])
    /\ UNCHANGED <<mangled, ast, aborted, oobRead>>

\* the bounded parseTemplate from the end of its loop on, were the test of
\* _mangled.begin() != end left out
TemplateEnd_NoBoundaryCheck(end) ==
    LET c == consume(pos, status, "%")
    IN  /\ pos' = c.pos
        /\ status' = c.status
        /\ IF ~c.ok THEN Return(Null) /\ heap' = heap
           ELSE ReturnNew(TemplateNode(Top.templateNameNode, Top.params))

\* the bounded parseTemplate from the end of its loop on
TemplateEnd(end) ==
    LET c == consume(pos, status, "%")
    IN  /\ pos' = c.pos
        /\ IF ~c.ok
           THEN status' = c.status /\ Return(Null) /\ heap' = heap
           ELSE IF c.pos # end
           THEN status' = invalid_mangled_name /\ Return(Null) /\ heap' = heap
           ELSE /\ status' = c.status
                /\ ReturnNew(TemplateNode(Top.templateNameNode, Top.params))

\* the loop of the bounded parseTemplate, at its condition
ParseTemplateB_loop ==
    /\ At("parseTemplateB_loop")
    /\ LET params == Top.params
           t == consumeFrontChar(pos, "t")
           backref == peekNumber(t)
           num == parseNumber(t, status)
       IN  IF peekChar(pos, "%")
           THEN TemplateEnd(Top.end)
           ELSE IF t # pos /\ backref > 0 /\ backref <= size(heap, params)
           THEN /\ pos' = num.pos
                /\ status' = num.status
                /\ heap' = addBackref(heap, params, backref)
                /\ Goto(Top)
           ELSE /\ pos' = t
                /\ Call([pc |-> "parseTemplateB_type", templateNameNode |-> Top.templateNameNode,
                         params |-> params, end |-> Top.end],
                        [pc |-> "parseType"])
                /\ UNCHANGED <<status, heap>>
    /\ UNCHANGED <<mangled, ast, aborted, oobRead>>

\* the bounded parseTemplate after parseType returned
ParseTemplateB_type ==
    /\ At("parseTemplateB_type")
    /\ IF ret = Null \/ status = invalid_mangled_name
       THEN TemplateEnd(Top.end)
       ELSE /\ heap' = addNode(heap, Top.params, ret)
            /\ Goto([pc |-> "parseTemplateB_loop", templateNameNode |-> Top.templateNameNode,
                     params |-> Top.params, end |-> Top.end])
            /\ UNCHANGED <<pos, status>>
    /\ UNCHANGED <<mangled, ast, aborted, oobRead>>

-----------------------------------------------------------------------------

Next ==
    \/ Parse
    \/ ParseEnd
    \/ ParseFunction
    \/ ParseFunction_name
    \/ ParseFunction_type
    \/ ParseFuncName
    \/ ParseFuncName_template
    \/ ParseTemplate
    \/ ParseTemplateParams
    \/ ParseTemplateParams_type
    \/ ParseTemplate_params
    \/ ParseFuncType
    \/ ParseFuncParams
    \/ ParseFuncParams_type
    \/ ParseFuncType_params
    \/ ParseFuncType_ret
    \/ ParseType_pointer
    \/ ParseType_reference
    \/ ParseType_rreference
    \/ ParseType_array
    \/ ParseType_function
    \/ ParseType_named
    \/ ParseType_builtin
    \/ ParsePointer_type
    \/ ParseReference_func
    \/ ParseReference_type
    \/ ParseRReference_func
    \/ ParseRReference_type
    \/ ParseArray_type
    \/ ParseNamedType
    \/ ParseName
    \/ ParseNamedType_name
    \/ ParseTemplateB
    \/ ParseTemplateB_loop
    \/ ParseTemplateB_type

Spec == Init /\ [][Next]_vars

\* the constructor runs parse() to its end: no step that can be taken is
\* put off forever
FairSpec == Spec /\ WF_vars(Next)

-----------------------------------------------------------------------------
(* The accessors *)

\* BorlandASTParser::ast()
Ast == IF status = success THEN ast ELSE Null

-----------------------------------------------------------------------------
(* Properties *)

\* the loop of parseFuncParams is at its condition and the condition holds
InFuncParamsLoop ==
    At("parseFuncParams") /\ ~empty(pos) /\ statusOk(status) /\ ~peekChar(pos, "$")

\* the loop of parseTemplateParams or of the bounded parseTemplate is at its
\* condition and the condition holds
InTemplateLoop ==
    \/ At("parseTemplateParams") /\ CharAt(pos) # "%"
    \/ At("parseTemplateB_loop") /\ ~peekChar(pos, "%")

\* a list is being built, 't' is next, and the number behind it is a
\* position of the list
AtBackref ==
    /\ InFuncParamsLoop \/ InTemplateLoop
    /\ peekChar(pos, "t")
    /\ peekNumber(pos + 1) \in 1..size(heap, Top.params)

\* a list is being built, 't' is next, and the number behind it is 0, absent
\* or greater than the size of the list
AtInvalidBackref ==
    /\ InFuncParamsLoop \/ InTemplateLoop
    /\ peekChar(pos, "t")
    /\ peekNumber(pos + 1) \notin 1..size(heap, Top.params)

\* parseReference has parsed the type behind 'r' and it is a reference or an
\* rvalue reference, or parseRReference the type behind 'h' and it is a
\* reference
RefWrapsRef ==
    \/ /\ At("parseReference_type")
       /\ ret # Null
       /\ heap[ret].kind \in {"KReferenceType", "KRReferenceType"}
    \/ /\ At("parseRReference_type")
       /\ ret # Null
       /\ heap[ret].kind = "KReferenceType"

\* parseNamedType is entered with a length greater than what is left
NameTooLong == At("parseNamedType") /\ pos + Top.nameLen > N

\* the bounded parseTemplate is behind its loop, the closing '%' is there, and
\* behind it the cursor is not at the declared end of the name
ClosesOffBoundary ==
    /\ \/ At("parseTemplateB_loop")
       \/ At("parseTemplateB_type") /\ (ret = Null \/ status = invalid_mangled_name)
    /\ peekChar(pos, "%")
    /\ pos + 1 # Top.end

\* C1: constructing the parser terminates: no loop of parseFuncParams,
\* parseTemplateParams or the bounded parseTemplate repeats forever without
\* consuming a character or setting invalid_mangled_name
C1_Terminates == <>(Constructed \/ aborted)

\* C2: once the constructor has returned, status() is success or
\* invalid_mangled_name, never in_progress
C2_NeverInProgress == Constructed => status \in {success, invalid_mangled_name}

\* C3: when 'r' directly wraps a reference or an rvalue reference, or 'h' a
\* reference, the parse ends with invalid_mangled_name, wherever the type is
C3_RefToRefInvalid ==
    [](RefWrapsRef => [](Constructed => status = invalid_mangled_name))

\* C4: when parseName has returned a name to parseNamedType and the status is
\* not invalid_mangled_name, the cursor is exactly at the declared end of the
\* name: the L characters of the name, and no others, were consumed
C4_NameConsumesLength ==
    (At("parseNamedType_name") /\ ret # Null /\ status # invalid_mangled_name)
        => pos = Top.end

\* C5: in a parameter list and in a template argument list alike, a 't' whose
\* number is 0, absent or out of range is not consumed and raises no error:
\* parseType is called with the cursor at the 't'
C5_InvalidBackrefFallsThrough ==
    [][AtInvalidBackref =>
          /\ pos' = pos
          /\ status' = status
          /\ stack' # <<>>
          /\ stack'[Len(stack')].pc = "parseType"]_vars

\* C6: when the status is success the cursor is empty and ast() returns the
\* function node; when it is not, ast() returns nothing
C6_SuccessConsumesAll ==
    /\ status = success =>
          /\ empty(pos)
          /\ Ast # Null
          /\ heap[Ast].kind = "KFunction"
    /\ status # success => Ast = Null

C6_Witness == Constructed /\ status = success /\ N > 4 /\ pos = N /\ Ast = Len(heap)

\* C7: the status only goes from in_progress to success or to
\* invalid_mangled_name; invalid_mangled_name and success are never left
C7_StatusSticky ==
    [][/\ status = invalid_mangled_name => status' = invalid_mangled_name
       /\ status = success => status' = success
       /\ status' = in_progress => status = in_progress]_vars

\* the status is invalid_mangled_name and rules are still running
C7_Witness == status = invalid_mangled_name /\ Len(stack) >= 3

C9_BackrefIdentity ==
    [][AtBackref =>
          LET params == Top.params
              n == peekNumber(pos + 1)
          IN  heap' = [heap EXCEPT ![params] =
                          [@ EXCEPT !.nodes = Append(@, @[n])]]]_vars

\* a list of three entries holds the handle of its second entry twice
C9_Witness ==
    \E l \in 1..Len(heap) :
        /\ heap[l].kind = "KNodeArray"
        /\ Len(heap[l].nodes) = 3
        /\ heap[l].nodes[3] = heap[l].nodes[2]
        /\ heap[l].nodes[1] # heap[l].nodes[2]

\* C10: no rule reads the front of an empty cursor, and no scan reads at or
\* behind the end of the mangled name
C10_NoReadPastEnd == ~oobRead /\ ~aborted

=============================================================================
